---- MODULE Spec2Model ----
(***************************************************************************)
(* A model of the SAC agent of l2r-lab (agents/sac_agent.py) and of the    *)
(* FIFO replay buffer (src/buffers/SimpleReplayBuffer.py).                 *)
(*                                                                         *)
(* Three specifications share one set of variables:                        *)
(*   BufferSpec  SimpleReplayBuffer: store on a buffer of capacity size    *)
(*   AgentSpec   SACAgent: select_action, register_reset, set_params       *)
(*   UpdateSpec  SACAgent.update, one statement group per step             *)
(* Tensor values are exact rationals [n, d] (d > 0, lowest terms): the     *)
(* rounding of float32 arithmetic is not modelled.                         *)
(***************************************************************************)
EXTENDS Integers, Sequences, FiniteSets, TLC

\* ---------------------------------------------------------------- bounds
\* largest size a buffer is constructed with
MaxSize == 3
\* most transitions ever pushed into the buffer (appended or extended)
MaxStored == 5
\* longest other buffer handed to store
MaxOther == 2
\* most select_action calls counted from a value t was set to
MaxT == 4
\* most update calls
MaxUpdates == 2

\* register_reset sets t to 1e6
ResetT == 1000000

VARIABLES
    \* SimpleReplayBuffer
    max_size,             \* self.max_size
    buffer,               \* self.buffer, a deque(maxlen = max_size), oldest first
    stored,               \* history: every entry pushed into self.buffer, in order
    \* the last call made and what it gave back
    ret,
    \* SACAgent
    cfg,                  \* self.cfg: start_steps, gamma, alpha, polyak
    t,                    \* self.t
    deterministic,        \* self.deterministic
    record,               \* self.record
    actor_critic,         \* parameters of self.actor_critic
    actor_critic_target,  \* parameters of self.actor_critic_target
    requires_grad,        \* requires_grad of every parameter of self.actor_critic
    \* SACAgent.update in progress
    pc,                   \* position inside update ("idle": not running)
    data,                 \* the batch update was called with
    noise,                \* the sample the policy drew in compute_loss_q
    backup,               \* the Bellman backup compute_loss_q computed
    targ_before,          \* history: actor_critic_target when update was called
    steps,                \* history: the steps of the running / last update
    updates               \* number of update calls made

bufvars == <<max_size, buffer, stored>>
agentvars == <<cfg, t, deterministic, record, actor_critic, actor_critic_target,
               requires_grad>>
updvars == <<pc, data, noise, backup, targ_before, steps, updates>>
vars == <<max_size, buffer, stored, ret, cfg, t, deterministic, record,
          actor_critic, actor_critic_target, requires_grad, pc, data, noise,
          backup, targ_before, steps, updates>>

\* ------------------------------------------------------------- call results
Ret(op, arg, raised, value) ==
    [op |-> op, arg |-> arg, raised |-> raised, value |-> value]

NoCall == Ret("__init__", "", "", "None")

\* ------------------------------------------------------ SimpleReplayBuffer
\* An array-like: a torch.Tensor (maybe requiring grad) or a numpy array.
Tensor(g, x) == [type |-> "Tensor", requires_grad |-> g, data |-> x]
NdArray(x) == [type |-> "ndarray", requires_grad |-> FALSE, data |-> x]

\* store.convert, on one element of the pair
ToNumpy(a) ==
    IF a.type = "Tensor"
    THEN LET detached == IF a.requires_grad
                         THEN Tensor(FALSE, a.data)
                         ELSE a
         IN NdArray(detached.data)
    ELSE a

\* store.convert
convert(arraylike) ==
    LET obs == arraylike[1]
        act == arraylike[2]
    IN <<ToNumpy(obs), ToNumpy(act)>>

DictKeys == {"obs", "next_obs", "act", "rew", "done"}

\* The dicts store is called with: a transition, possibly with a key missing.
ObsPairs ==
    { <<Tensor(TRUE, 0), NdArray(1)>>, <<NdArray(1), Tensor(FALSE, 0)>> }

DictValues ==
    { [type |-> "dict", keys |-> ks, obs |-> o, next_obs |-> <<o[2], o[1]>>,
       act |-> [action |-> 0], rew |-> r, done |-> 0] :
         ks \in {DictKeys, DictKeys \ {"rew"}}, o \in ObsPairs, r \in {0, 1} }

\* The entry store builds from a dict (currdict)
CurrDict(values) ==
    [obs |-> convert(values.obs),
     obs2 |-> convert(values.next_obs),
     act |-> values.act.action,
     rew |-> values.rew,
     done |-> values.done]

\* Every entry a buffer can hold
Entries == { CurrDict(v) : v \in {d \in DictValues : d.keys = DictKeys} }

\* The sequences over S of length at most n
SeqUpTo(S, n) == UNION { [1..k -> S] : k \in 0..n }

\* Types store rejects: neither exactly dict nor exactly the buffer's class
OtherTypes == {"list", "NoneType", "OrderedDict"}

\* Faulty variant: a deque without maxlen
DequeAppendUnbounded(q, n, x) == Append(q, x)

\* Faulty variant: a full deque drops the new entry, not the oldest
DequeAppendKeepOldest(q, n, x) ==
    IF Len(q) >= n THEN q ELSE Append(q, x)

\* collections.deque.append on a deque of maxlen n: a full deque drops its
\* oldest entry, a deque of maxlen 0 keeps nothing
DequeAppend(q, n, x) ==
    IF n = 0 THEN q
    ELSE IF Len(q) = n THEN Append(Tail(q), x)
    ELSE Append(q, x)

\* collections.deque.extend: append every element, in order
RECURSIVE DequeExtend(_, _, _)
DequeExtend(q, n, xs) ==
    IF xs = <<>> THEN q
    ELSE DequeExtend(DequeAppend(q, n, Head(xs)), n, Tail(xs))

\* store(values), values a dict
StoreDict(values) ==
    IF DictKeys \subseteq values.keys
    THEN /\ Len(stored) < MaxStored
         /\ buffer' = DequeAppend(buffer, max_size, CurrDict(values))
         /\ stored' = Append(stored, CurrDict(values))
         /\ ret' = Ret("store", "dict", "", "None")
    ELSE /\ UNCHANGED <<buffer, stored>>
         /\ ret' = Ret("store", "dict", "KeyError", "")

\* store(values), values a SimpleReplayBuffer whose deque holds other
StoreBuffer(other) ==
    /\ Len(stored) + Len(other) <= MaxStored
    /\ buffer' = DequeExtend(buffer, max_size, other)
    /\ stored' = stored \o other
    /\ ret' = Ret("store", "SimpleReplayBuffer", "", "None")

\* Faulty variant: the value is stored before the exception is raised
StoreOtherAppends(ty) ==
    /\ Len(stored) < MaxStored
    /\ buffer' = DequeAppend(buffer, max_size, CHOOSE e \in Entries : TRUE)
    /\ stored' = Append(stored, CHOOSE e \in Entries : TRUE)
    /\ ret' = Ret("store", ty, "Exception: invalid input type", "")

\* store(values), values of any other type: print, raise
StoreOther(ty) ==
    /\ UNCHANGED <<buffer, stored>>
    /\ ret' = Ret("store", ty, "Exception: invalid input type", "")

\* SimpleReplayBuffer.store
store ==
    /\ \/ \E values \in DictValues : StoreDict(values)
       \/ \E other \in SeqUpTo(Entries, MaxOther) : StoreBuffer(other)
       \/ StoreBuffer(buffer)
       \/ \E ty \in OtherTypes : StoreOther(ty)
    /\ UNCHANGED <<max_size>>
    /\ UNCHANGED agentvars
    /\ UNCHANGED updvars

\* SimpleReplayBuffer.__len__
BufferLen == Len(buffer)

\* SimpleReplayBuffer.__init__
BufferInit ==
    /\ max_size \in 0..MaxSize
    /\ buffer = <<>>
    /\ stored = <<>>

\* ------------------------------------------------------------- rationals
RECURSIVE GCD(_, _)
GCD(a, b) == IF b = 0 THEN a ELSE GCD(b, a % b)

Abs(i) == IF i < 0 THEN -i ELSE i

\* n / d in lowest terms, d > 0
Rat(n, d) ==
    LET g == GCD(Abs(n), Abs(d))
        s == IF d < 0 THEN -1 ELSE 1
    IN [n |-> s * (n \div g), d |-> s * (d \div g)]

RInt(i) == [n |-> i, d |-> 1]
RAdd(x, y) == Rat(x.n * y.d + y.n * x.d, x.d * y.d)
RSub(x, y) == Rat(x.n * y.d - y.n * x.d, x.d * y.d)
RMul(x, y) == Rat(x.n * y.n, x.d * y.d)
RLeq(x, y) == x.n * y.d <= y.n * x.d
\* torch.min of two values
RMin(x, y) == IF RLeq(x, y) THEN x ELSE y

\* ------------------------------------------------------------ the networks
\* One scalar parameter stands for each sub-network of ActorCritic.
ParamNames == {"policy", "q1", "q2"}

\* self.q_params: the parameters of the two Q networks
q_params == {"q1", "q2"}

\* Values a parameter is initialised with, or moved to by an optimizer step
ParamVals == {RInt(1), RInt(2)}

\* ActorCritic.pi(obs): an action sampled with noise eps, and its log-prob.
\* A stand-in for the network: a function of the policy's parameter, the
\* observation and the noise.
pi(theta, obs, eps) ==
    [a |-> RAdd(RMul(theta, RInt(obs)), RInt(eps)), logp |-> RInt(-1 - eps)]

\* Qfunction.forward(obs, action): a stand-in for the network, a function
\* of the Q network's parameter, the observation and the action.
q(theta, obs, action) == RAdd(RMul(theta, RInt(obs)), action)

\* ----------------------------------------------------------------- SACAgent
\* The agent's actions, as select_action returns them
ActionValues ==
    {"action_space.sample()", "actor_critic.act(deterministic=False)",
     "actor_critic.act(deterministic=True)"}

\* Faulty variant: the learned policy is used one call early
UseLearnerFromStart(tt, start_steps) == tt >= start_steps

\* select_action's test for using the learned policy

UseLearner(tt, start_steps) == tt > start_steps

\* select_action calls counted since t was last set (by set_params or
\* register_reset)
CallsCounted == IF t >= ResetT THEN t - ResetT ELSE t

\* SACAgent.select_action(obs, encode)
select_action ==
    /\ pc = "idle"
    /\ CallsCounted < MaxT
    /\ \E encode \in BOOLEAN :
         IF UseLearner(t, cfg.start_steps)
         THEN /\ ret' = Ret("select_action",
                            IF encode THEN "encode=True" ELSE "encode=False", "",
                            IF deterministic
                            THEN "actor_critic.act(deterministic=True)"
                            ELSE "actor_critic.act(deterministic=False)")
              /\ record' = [record EXCEPT !.transition_actor = "learner"]
         ELSE /\ ret' = Ret("select_action",
                            IF encode THEN "encode=True" ELSE "encode=False", "",
                            "action_space.sample()")
              /\ record' = [record EXCEPT !.transition_actor = "random"]
    /\ t' = t + 1
    /\ UNCHANGED <<cfg, deterministic, actor_critic, actor_critic_target,
                   requires_grad>>
    /\ UNCHANGED bufvars
    /\ UNCHANGED updvars

\* SACAgent.register_reset(obs): no return statement
register_reset ==
    /\ pc = "idle"
    /\ deterministic' = TRUE
    /\ t' = ResetT
    /\ ret' = Ret("register_reset", "obs", "", "None")
    /\ UNCHANGED <<cfg, record, actor_critic, actor_critic_target, requires_grad>>
    /\ UNCHANGED bufvars
    /\ UNCHANGED updvars

\* SACAgent.set_params: the fields the other methods read. The new
\* ActorCritic is freshly initialised or loaded from a checkpoint; the
\* target is a deepcopy of it.
set_params ==
    /\ pc = "idle"
    /\ t' = 0
    /\ deterministic' = FALSE
    /\ record' = [transition_actor |-> ""]
    /\ actor_critic' \in [ParamNames -> ParamVals]
    /\ actor_critic_target' = actor_critic'
    /\ requires_grad' = [p \in ParamNames |-> TRUE]
    /\ ret' = Ret("set_params", "", "", "None")
    /\ UNCHANGED <<cfg>>
    /\ UNCHANGED bufvars
    /\ UNCHANGED updvars

\* ---------------------------------------------------------- SACAgent.update
\* The rows of a batch: obs, act, rew, obs2, done of one transition
Rows ==
    { [obs |-> 1, act |-> 0, rew |-> r, obs2 |-> o2, done |-> d] :
        r \in {3}, o2 \in {1, 2}, d \in {0, 1} }

\* The numbers of rows of a batch
BatchSizes == {1, 2}

\* The noise the policy draws for one row
Noises == {0, 1}

\* Faulty variant: the Q values of the backup come from the current networks
BackupRowFromCurrentQ(ac, targ, c, row, eps) ==
    LET p == pi(ac["policy"], row.obs2, eps)
        q1_pi == q(ac["q1"], row.obs2, p.a)
        q2_pi == q(ac["q2"], row.obs2, p.a)
    IN RAdd(RInt(row.rew),
            RMul(RMul(c.gamma, RInt(1 - row.done)),
                 RSub(RMin(q1_pi, q2_pi), RMul(c.alpha, p.logp))))

\* compute_loss_q, the Bellman backup of one row of the batch
BackupRow(ac, targ, c, row, eps) ==
    LET p == pi(ac["policy"], row.obs2, eps)
        a2 == p.a
        logp_a2 == p.logp
        q1_pi_targ == q(targ["q1"], row.obs2, a2)
        q2_pi_targ == q(targ["q2"], row.obs2, a2)
        q_pi_targ == RMin(q1_pi_targ, q2_pi_targ)
    IN RAdd(RInt(row.rew),
            RMul(RMul(c.gamma, RInt(1 - row.done)),
                 RSub(q_pi_targ, RMul(c.alpha, logp_a2))))

\* compute_loss_q(data): the backup, row by row (the loss built from it
\* only feeds the gradient step)
compute_loss_q(dat, eps) ==
    [i \in 1..Len(dat) |->
        BackupRow(actor_critic, actor_critic_target, cfg, dat[i], eps[i])]

\* q_optimizer.step(): moves the parameters of the Q networks, to values
\* new that stand for the result of the gradient step
q_optimizer_step(ac, new) ==
    [p \in ParamNames |-> IF p \in q_params THEN new[p] ELSE ac[p]]

\* pi_optimizer.step(): moves the parameters of the policy
pi_optimizer_step(ac, new) ==
    [p \in ParamNames |-> IF p = "policy" THEN new[p] ELSE ac[p]]

\* for p in self.q_params: p.requires_grad = v
SetQRequiresGrad(rg, v) ==
    [p \in ParamNames |-> IF p \in q_params THEN v ELSE rg[p]]

\* the loop that freezes the Q networks
Freeze(rg) == SetQRequiresGrad(rg, FALSE)

\* Faulty variant: only the first Q network is unfrozen
UnfreezeFirstOnly(rg) == [rg EXCEPT !["q1"] = TRUE]

\* the loop that unfreezes the Q networks

Unfreeze(rg) == SetQRequiresGrad(rg, TRUE)

\* Faulty variant: the weights polyak and 1 - polyak swapped
PolyakSwapped(polyak, p_targ, p) ==
    RAdd(RMul(p_targ, RSub(RInt(1), polyak)), RMul(polyak, p))

\* p_targ.data.mul_(polyak); p_targ.data.add_((1 - polyak) * p.data)
PolyakAverage(polyak, p_targ, p) ==
    LET mul_ == RMul(p_targ, polyak)
    IN RAdd(mul_, RMul(RSub(RInt(1), polyak), p))

\* what a step of update logs: its name and the requires_grad values of
\* the parameters in q_params at that step
Step(name) ==
    [op |-> name, q_requires_grad |-> {requires_grad[p] : p \in q_params}]

\* update, lines 228-231: one gradient descent step for Q1 and Q2
update_q_step ==
    /\ pc = "idle"
    /\ updates < MaxUpdates
    /\ \E n \in BatchSizes, new \in [ParamNames -> ParamVals] :
       \E dat \in [1..n -> Rows], eps \in [1..n -> Noises] :
         /\ data' = dat
         /\ noise' = eps
         /\ backup' = compute_loss_q(dat, eps)
         /\ actor_critic' = q_optimizer_step(actor_critic, new)
    /\ targ_before' = actor_critic_target
    /\ steps' = <<Step("q_step")>>
    /\ updates' = updates + 1
    /\ pc' = "q_done"
    /\ UNCHANGED <<ret, cfg, t, deterministic, record, actor_critic_target,
                   requires_grad>>
    /\ UNCHANGED bufvars

\* update, lines 235-236: freeze the Q networks
update_freeze ==
    /\ pc = "q_done"
    /\ requires_grad' = Freeze(requires_grad)
    /\ steps' = Append(steps, Step("freeze"))
    /\ pc' = "frozen"
    /\ UNCHANGED <<ret, cfg, t, deterministic, record, actor_critic,
                   actor_critic_target>>
    /\ UNCHANGED <<data, noise, backup, targ_before, updates>>
    /\ UNCHANGED bufvars

\* update, lines 239-242: one gradient descent step for pi
update_pi_step ==
    /\ pc = "frozen"
    /\ \E new \in [ParamNames -> ParamVals] :
         actor_critic' = pi_optimizer_step(actor_critic, new)
    /\ steps' = Append(steps, Step("pi_step"))
    /\ pc' = "pi_done"
    /\ UNCHANGED <<ret, cfg, t, deterministic, record, actor_critic_target,
                   requires_grad>>
    /\ UNCHANGED <<data, noise, backup, targ_before, updates>>
    /\ UNCHANGED bufvars

\* update, lines 245-246: unfreeze the Q networks
update_unfreeze ==
    /\ pc = "pi_done"
    /\ requires_grad' = Unfreeze(requires_grad)
    /\ steps' = Append(steps, Step("unfreeze"))
    /\ pc' = "unfrozen"
    /\ UNCHANGED <<ret, cfg, t, deterministic, record, actor_critic,
                   actor_critic_target>>
    /\ UNCHANGED <<data, noise, backup, targ_before, updates>>
    /\ UNCHANGED bufvars

\* update, lines 249-256: polyak averaging of the target, then return
update_polyak ==
    /\ pc = "unfrozen"
    /\ actor_critic_target' =
         [p \in ParamNames |->
            PolyakAverage(cfg.polyak, actor_critic_target[p], actor_critic[p])]
    /\ steps' = Append(steps, Step("polyak"))
    /\ pc' = "idle"
    /\ ret' = Ret("update", "data", "", "None")
    /\ data' = <<>>
    /\ noise' = <<>>
    /\ backup' = <<>>
    /\ UNCHANGED <<cfg, t, deterministic, record, actor_critic, requires_grad>>
    /\ UNCHANGED <<targ_before, updates>>
    /\ UNCHANGED bufvars

\* SACAgent.update(data)
update ==
    \/ update_q_step
    \/ update_freeze
    \/ update_pi_step
    \/ update_unfreeze
    \/ update_polyak

\* ------------------------------------------------------------ specifications
Cfg(start_steps, gamma, alpha, polyak) ==
    [start_steps |-> start_steps, gamma |-> gamma, alpha |-> alpha,
     polyak |-> polyak]

\* SACAgent.__init__ with one of the configurations cfgs and the initial
\* network parameters of params
AgentInit(cfgs, params) ==
    /\ cfg \in cfgs
    /\ t = 0
    /\ deterministic = FALSE
    /\ record = [transition_actor |-> ""]
    /\ actor_critic \in params
    /\ actor_critic_target = actor_critic
    /\ requires_grad = [p \in ParamNames |-> TRUE]
    /\ pc = "idle"
    /\ data = <<>>
    /\ noise = <<>>
    /\ backup = <<>>
    /\ targ_before = actor_critic_target
    /\ steps = <<>>
    /\ updates = 0
    /\ ret = NoCall

\* One configuration and one initialisation, for the specifications that
\* leave the agent alone
OneCfg == Cfg(2, Rat(1, 2), Rat(1, 5), Rat(1, 2))
OneParams == [p \in ParamNames |-> RInt(1)]

\* start_steps below, at and above the value register_reset sets t to
StartSteps == {0, 2, ResetT, ResetT + 1}

AgentCfgs == { Cfg(s, Rat(1, 2), Rat(1, 5), Rat(1, 2)) : s \in StartSteps }

UpdateCfgs ==
    { Cfg(2, g, a, p) : g \in {Rat(1, 2), RInt(1)}, a \in {Rat(1, 5)},
                        p \in {Rat(1, 2), Rat(9, 10)} }

\* Two initialisations of the networks: equal and unequal Q networks
UpdateParams ==
    { OneParams, [p \in ParamNames |-> IF p = "q1" THEN RInt(1) ELSE RInt(2)] }

BufferSpecInit == BufferInit /\ AgentInit({OneCfg}, {OneParams})
BufferNext == store
BufferSpec == BufferSpecInit /\ [][BufferNext]_vars

AgentSpecInit ==
    /\ max_size = 0 /\ buffer = <<>> /\ stored = <<>>
    /\ AgentInit(AgentCfgs, {OneParams})
AgentNext == select_action \/ register_reset \/ set_params
AgentSpec == AgentSpecInit /\ [][AgentNext]_vars

UpdateSpecInit ==
    /\ max_size = 0 /\ buffer = <<>> /\ stored = <<>>
    /\ AgentInit(UpdateCfgs, UpdateParams)
UpdateNext == update
UpdateSpec == UpdateSpecInit /\ [][UpdateNext]_vars

\* The composition of the three: every method on one agent and one buffer
Init == BufferInit /\ AgentInit(AgentCfgs \cup UpdateCfgs, [ParamNames -> ParamVals])
Next == store \/ select_action \/ register_reset \/ set_params \/ update
Spec == Init /\ [][Next]_vars

\* -------------------------------------------------------------------- claims
Min(a, b) == IF a <= b THEN a ELSE b

\* the last n elements of s
LastN(s, n) == SubSeq(s, Len(s) - n + 1, Len(s))

\* C1: a buffer constructed with size = N never holds more than N
\* transitions, whatever was stored into it (dicts or whole buffers).
C1_FixedCapacity == BufferLen <= max_size

\* More was pushed than fits, the last push being a whole buffer.
C1_Witness ==
    /\ max_size > 0
    /\ Len(stored) > max_size
    /\ BufferLen = max_size
    /\ ret = Ret("store", "SimpleReplayBuffer", "", "None")

\* C2: the buffer is FIFO: after k transitions were stored into a buffer of
\* capacity N it holds exactly the last min(k, N) of them, in insertion
\* order (so a store into a full buffer evicts the oldest and no other).
C2_FIFO == buffer = LastN(stored, Min(Len(stored), max_size))

\* A dict was stored into a full buffer of capacity 2 or more, and the two
\* oldest entries kept differ.
C2_Witness ==
    /\ max_size >= 2
    /\ Len(stored) > max_size
    /\ ret = Ret("store", "dict", "", "None")
    /\ buffer[1] # buffer[2]

\* C7: store called with a value that is neither a dict nor a buffer of the
\* same class raises the "invalid input type" exception and leaves the
\* buffer's contents and length as they were.
C7_RejectsOtherTypes ==
    [][ (ret'.op = "store" /\ ret'.arg \notin {"dict", "SimpleReplayBuffer"})
        => /\ ret'.raised = "Exception: invalid input type"
           /\ buffer' = buffer
           /\ Len(buffer') = Len(buffer) ]_vars

\* A list was handed to a buffer that holds something.
C7_Witness ==
    /\ ret = Ret("store", "list", "Exception: invalid input type", "")
    /\ BufferLen > 0

\* What every select_action call does: random up to start_steps, the
\* learned policy after, and t incremented by exactly 1.
SelectActionContract ==
    select_action =>
        /\ t <= cfg.start_steps =>
              /\ ret'.value = "action_space.sample()"
              /\ record'.transition_actor = "random"
        /\ t > cfg.start_steps =>
              /\ ret'.value \in {"actor_critic.act(deterministic=False)",
                                  "actor_critic.act(deterministic=True)"}
              /\ record'.transition_actor = "learner"
        /\ t' = t + 1

\* The last select_action call used the learned policy and so would the
\* next one.
Learner == record.transition_actor = "learner" /\ t > cfg.start_steps

\* C5 as stated: select_action samples at random while t <= start_steps and
\* uses the learned policy when t > start_steps, incrementing t by 1; and
\* once the agent acts as learner, only set_params brings it back to
\* t <= start_steps (random).
C5_Original ==
    [][ /\ SelectActionContract
        /\ (Learner /\ ~set_params) => t' > cfg.start_steps ]_vars

\* C5 amended: as C5, but the agent also goes back from learner to random
\* when register_reset is called with start_steps >= 1e6 (it sets t = 1e6).
C5_SelectAction ==
    [][ /\ SelectActionContract
        /\ ( /\ Learner
             /\ ~set_params
             /\ ~(register_reset /\ cfg.start_steps >= ResetT) )
           => t' > cfg.start_steps ]_vars

\* The learner was reached by counting calls, one call after the switch.
C5_Witness ==
    /\ ret.op = "select_action"
    /\ record.transition_actor = "learner"
    /\ t < ResetT
    /\ t = cfg.start_steps + 3

\* C6: register_reset returns an action, as select_action does.
C6_RegisterResetReturnsAction ==
    ret.op = "register_reset" => ret.value \in ActionValues

\* C3: when update has returned, every target parameter is polyak times
\* its value before the call plus (1 - polyak) times the actor_critic
\* parameter as the gradient steps left it; before that point of update the
\* target is untouched.
C3_PolyakAveraging ==
    /\ (pc = "idle" /\ ret.op = "update") =>
          \A p \in ParamNames :
             actor_critic_target[p] =
                RAdd(RMul(cfg.polyak, targ_before[p]),
                     RMul(RSub(RInt(1), cfg.polyak), actor_critic[p]))
    /\ pc # "idle" => actor_critic_target = targ_before

\* A second update has returned, with a target that is a proper fraction
\* and differs from the network it tracks.
C3_Witness ==
    /\ pc = "idle"
    /\ ret.op = "update"
    /\ updates = 2
    /\ actor_critic_target["q1"].d > 2
    /\ actor_critic_target["q1"] # actor_critic["q1"]
    /\ cfg.polyak = Rat(9, 10)

\* C4: the backup of every row is
\*   r + gamma * (1 - d) * (min(q1_targ(o2, a2), q2_targ(o2, a2)) - alpha * logp(a2))
\* with a2, logp(a2) from the current policy and both Q values from the
\* target networks; a row with done = 1 has backup r.
C4_BellmanBackup ==
    pc = "q_done" =>
       \A i \in 1..Len(data) :
          LET row == data[i]
              cur == pi(actor_critic["policy"], row.obs2, noise[i])
              q1t == q(actor_critic_target["q1"], row.obs2, cur.a)
              q2t == q(actor_critic_target["q2"], row.obs2, cur.a)
              qmin == IF RLeq(q1t, q2t) THEN q1t ELSE q2t
              soft == RSub(qmin, RMul(cfg.alpha, cur.logp))
          IN /\ backup[i] =
                   RAdd(RInt(row.rew),
                        RMul(cfg.gamma, RMul(RInt(1 - row.done), soft)))
             /\ row.done = 1 => backup[i] = RInt(row.rew)

\* A backup was computed in a second update, for a batch with a terminal
\* and a non-terminal row, with target Q networks that differ from the
\* current ones and from each other.
C4_Witness ==
    /\ pc = "q_done"
    /\ updates = 2
    /\ Len(data) = 2
    /\ data[1].done = 1
    /\ data[2].done = 0
    /\ actor_critic_target["q1"] # actor_critic_target["q2"]
    /\ actor_critic_target["q1"] # actor_critic["q1"]
    /\ backup[2] # RInt(data[2].rew)

\* The steps of one update, each with the requires_grad values of q_params
\* it starts with.
ExpectedSteps ==
    << [op |-> "q_step", q_requires_grad |-> {TRUE}],
       [op |-> "freeze", q_requires_grad |-> {TRUE}],
       [op |-> "pi_step", q_requires_grad |-> {FALSE}],
       [op |-> "unfreeze", q_requires_grad |-> {FALSE}],
       [op |-> "polyak", q_requires_grad |-> {TRUE}] >>

\* C8: update runs the Q step, then the policy step with every parameter of
\* q_params frozen, then the polyak averaging; the Q parameters are frozen
\* only between the Q step and the averaging, and all require grad again
\* when update returns.
C8_UpdateOrder ==
    /\ Len(steps) <= Len(ExpectedSteps)
    /\ steps = SubSeq(ExpectedSteps, 1, Len(steps))
    /\ (pc = "idle" /\ ret.op = "update") => steps = ExpectedSteps
    /\ pc = "idle" => \A p \in q_params : requires_grad[p]
    /\ (\E p \in q_params : ~requires_grad[p]) => pc \in {"frozen", "pi_done"}

\* A second update has returned after all five steps.
C8_Witness ==
    /\ pc = "idle"
    /\ ret.op = "update"
    /\ updates = 2
    /\ Len(steps) = 5
    /\ \A p \in q_params : requires_grad[p]

====
